---- MODULE Spec2Model ----
(***************************************************************************)
(* Model of autogenlib/_generator.py: validate_code, get_codebase_context, *)
(* check_if_empty_module_needed and generate_code.                         *)
(*                                                                         *)
(* Text is a sequence of tokens.  Every token stands for a fixed piece of  *)
(* Python text and the tokens are chosen so that the substring tests of    *)
(* the source (in, startswith, replace, split, strip) on the text are the  *)
(* subsequence tests below on the tokens.                                  *)
(***************************************************************************)
EXTENDS Integers, Sequences, FiniteSets, TLC

VARIABLES
  pc,             \* where the modelled call stands
  description,    \* generate_code's arguments ...
  fullname,
  existing_code,
  caller_info,
  api_key,        \* os.environ.get("OPENAI_API_KEY")
  cached_prompt,  \* what get_cached_prompt returns for the module
  modules,        \* what get_all_modules returns
  prompt,         \* the prompt of the last call, None before it is built
  response,       \* the content of the service's answer, None without one
  result,         \* what the modelled function returned
  service_calls,  \* requests the current call has sent to the service
  prev            \* arguments, store reads and prompt of the call before

vars == <<pc, description, fullname, existing_code, caller_info, api_key,
          cached_prompt, modules, prompt, response, result, service_calls, prev>>

(* ---------------- bounds ---------------- *)
MaxLen == 5
MaxRespLen == 3
MaxLines == 2
MaxTail == 2

(* ---------------- optional values (Python None) ---------------- *)
None == <<>>
Some(x) == <<x>>
IsSome(o) == Len(o) = 1
Val(o) == o[1]
\* Python truthiness of an optional string: neither None nor "".
Truthy(o) == IsSome(o) /\ Len(Val(o)) > 0

(* ---------------- tokens ---------------- *)
\* F is the fence marker, three backticks; PY the language tag after it.
F == "<fence>"
PY == "python"
X == "x"
NL == "\n"
SUR == "<lone surrogate>"
DOT == "."
SP == " "
Alphabet == {F, PY, X, NL, SUR}
UpperNames == {"Hash"}

SeqsUpTo(S, n) == UNION {[1..k -> S] : k \in 0..n}

(* ---------------- str methods ---------------- *)
\* s.startswith(p)
StartsWith(s, p) == Len(p) <= Len(s) /\ SubSeq(s, 1, Len(p)) = p

\* s.find(p) + 1: the first position where p occurs in s, 0 when it does not.
Find(s, p) ==
  LET hits == {i \in 1..(Len(s) - Len(p) + 1) : SubSeq(s, i, i + Len(p) - 1) = p}
  IN IF hits = {} THEN 0 ELSE CHOOSE i \in hits : \A j \in hits : i <= j

\* p in s
Contains(s, p) == Find(s, p) # 0

\* s.replace(p, "", 1)
ReplaceFirst(s, p) ==
  LET i == Find(s, p)
  IN IF i = 0 \/ Len(p) = 0 THEN s
     ELSE SubSeq(s, 1, i - 1) \o SubSeq(s, i + Len(p), Len(s))

\* s.strip(): the newline is the only whitespace token.
Strip(s) ==
  LET keep == {i \in 1..Len(s) : s[i] # NL}
  IN IF keep = {} THEN <<>>
     ELSE LET lo == CHOOSE i \in keep : \A j \in keep : i <= j
              hi == CHOOSE i \in keep : \A j \in keep : i >= j
          IN SubSeq(s, lo, hi)

\* s.split(sep) for a one-token separator: always at least one part.
RECURSIVE Split(_, _)
Split(s, sep) ==
  LET i == Find(s, <<sep>>)
  IN IF i = 0 THEN <<s>>
     ELSE <<SubSeq(s, 1, i - 1)>> \o Split(SubSeq(s, i + 1, Len(s)), sep)

\* sep.join(parts)
RECURSIVE Join(_, _)
Join(parts, sep) ==
  IF Len(parts) = 0 THEN <<>>
  ELSE IF Len(parts) = 1 THEN parts[1]
  ELSE parts[1] \o <<sep>> \o Join(Tail(parts), sep)

(* ---------------- validate_code ---------------- *)
\* ast.parse on a text of Alphabet: a lone surrogate cannot be encoded and
\* raises UnicodeEncodeError before parsing; a backtick is no Python token;
\* names separated by newlines are a module.
ast_parse(code) ==
  IF \E i \in 1..Len(code) : code[i] = SUR THEN "UnicodeEncodeError"
  ELSE IF \E i \in 1..Len(code) : code[i] = F THEN "SyntaxError"
  ELSE "ok"

\* validate_code without the parse.
validate_code_always_true(code) == "True"

\* validate_code: "True", "False", or the exception that leaves it.
validate_code(code) ==
  LET r == ast_parse(code)
  IN IF r = "ok" THEN "True"
     ELSE IF r = "SyntaxError" THEN "False"
     ELSE r

(* ---------------- fence removal and trimming in generate_code ---------------- *)
\* The removal without its second replace.
RemoveFences_opening_only(code) ==
  IF StartsWith(code, <<F, PY>>) THEN ReplaceFirst(code, <<F, PY>>)
  ELSE IF StartsWith(code, <<F>>) THEN ReplaceFirst(code, <<F>>)
  ELSE code

\* if code.startswith(fence + "python") ... elif code.startswith(fence) ...
RemoveFences(code) ==
  IF StartsWith(code, <<F, PY>>)
    THEN ReplaceFirst(ReplaceFirst(code, <<F, PY>>), <<F>>)
  ELSE IF StartsWith(code, <<F>>)
    THEN ReplaceFirst(ReplaceFirst(code, <<F>>), <<F>>)
  ELSE code

ExtractCode(content) == Strip(RemoveFences(Strip(content)))

(* ---------------- text specification ---------------- *)
Texts == SeqsUpTo(Alphabet, MaxLen)

InitText ==
  /\ pc = "text"
  /\ response \in Texts
  /\ description = <<>> /\ fullname = <<>> /\ existing_code = None
  /\ caller_info = None /\ api_key = None /\ cached_prompt = None
  /\ modules = <<>> /\ prompt = None /\ result = None /\ service_calls = 0
  /\ prev = None

StripStep ==
  /\ pc = "text"
  /\ pc' = "stripped"
  /\ result' = RemoveFences(response)
  /\ UNCHANGED <<description, fullname, existing_code, caller_info, api_key,
                 cached_prompt, modules, prompt, response, service_calls, prev>>

ValidateStep ==
  /\ pc = "text"
  /\ pc' = "validated"
  /\ result' = validate_code(response)
  /\ UNCHANGED <<description, fullname, existing_code, caller_info, api_key,
                 cached_prompt, modules, prompt, response, service_calls, prev>>

NextText == StripStep \/ ValidateStep

SpecText == InitText /\ [][NextText]_vars

(* ---------------- caller source and dotted names ---------------- *)
\* Lines a caller file is made of.
ImportFromLine == <<"from", SP, "lib", DOT, "crypto", SP, "import", SP, "hash">>
ImportNestedLine ==
  <<"from", SP, "lib", DOT, "crypto", DOT, "hash", SP, "import", SP, "md5">>
ImportLine == <<"import", SP, "lib", DOT, "crypto", DOT, "hash">>
UsageLine == <<"crypto", DOT, "hash", DOT, "md5", "(x)">>
OtherLine == <<X>>
EmptyLine == <<>>
LineTemplates ==
  {ImportFromLine, ImportNestedLine, ImportLine, UsageLine, OtherLine, EmptyLine}

\* Caller sources of one to MaxLines lines.
Codes == {Join(ls, NL) : ls \in SeqsUpTo(LineTemplates, MaxLines) \ {<<>>}}

\* "a.b.c" from its segments; a segment is a name or empty.
Dotted(segs) == Join(segs, DOT)
HeadNames == {<<"lib">>, <<"crypto">>, <<>>}
TailNames == {<<"hash">>, <<"md5">>, <<>>}
HeurNames ==
  {Dotted(h) : h \in [1..1 -> HeadNames]}
  \cup {Dotted(h \o t) : h \in [1..2 -> HeadNames], t \in SeqsUpTo(TailNames, MaxTail)}

\* caller_info: None, or a dict whose "code" and "filename" keys may be missing.
CallerInfo(filename, code) == Some([filename |-> filename, code |-> code])
HeurCallers ==
  {None, CallerInfo(None, None)}
  \cup {CallerInfo(Some(<<"app.py">>), Some(c)) : c \in Codes}

(* ---------------- check_if_empty_module_needed ---------------- *)
\* The function with the segment count at or below which a name is "not a
\* nested module" as a parameter.
EmptyModuleCheck(name, caller, flat) ==
  IF ~IsSome(caller) \/ ~Truthy(Val(caller).code) THEN FALSE
  ELSE
    LET parts == Split(name, DOT) IN
    IF Len(parts) <= flat THEN FALSE
    ELSE
      LET code == Val(Val(caller).code)
          lines == Split(code, NL)
          ref == parts[2] \o <<DOT>>
          ImportRef(line) == Contains(line, ref) /\ Contains(line, <<"import">>)
          checked == SelectSeq(lines, ImportRef)
          all == \A i \in 1..Len(checked) : Contains(checked[i], ref)
      IN
      IF Contains(code, ref) /\ ~all THEN FALSE
      ELSE
        LET parent_module == <<"from", SP>> \o parts[1] \o <<DOT>> \o parts[2]
            Child(line) ==
              Contains(line, parent_module) /\ Contains(line, <<"import">>)
            child_modules == SelectSeq(lines, Child)
        IN Len(child_modules) > 0

\* The function with "len(parts) <= 1".
check_if_empty_module_needed_flat1(name, caller) == EmptyModuleCheck(name, caller, 1)

check_if_empty_module_needed(name, caller) == EmptyModuleCheck(name, caller, 2)

(* ---------------- heuristic specification ---------------- *)
InitHeur ==
  /\ pc = "heur"
  /\ fullname \in HeurNames
  /\ caller_info \in HeurCallers
  /\ description = <<>> /\ existing_code = None /\ api_key = None
  /\ cached_prompt = None /\ modules = <<>> /\ prompt = None
  /\ response = None /\ result = None /\ service_calls = 0
  /\ prev = None

HeuristicStep ==
  /\ pc = "heur"
  /\ pc' = "heur_done"
  /\ result' = check_if_empty_module_needed(fullname, caller_info)
  /\ UNCHANGED <<description, fullname, existing_code, caller_info, api_key,
                 cached_prompt, modules, prompt, response, service_calls, prev>>

NextHeur == HeuristicStep

SpecHeur == InitHeur /\ [][NextHeur]_vars

(* ---------------- get_codebase_context ---------------- *)
\* modules: the mapping in iteration order, each entry a module name and its
\* data, whose "code" key may be missing.
RECURSIVE ModuleEntries(_)
ModuleEntries(ms) ==
  IF Len(ms) = 0 THEN <<>>
  ELSE (IF IsSome(ms[1].code)
          THEN <<"# Module:">> \o ms[1].name \o <<NL, F, PY, NL>>
               \o Val(ms[1].code) \o <<NL, F, NL, NL>>
          ELSE <<>>)
       \o ModuleEntries(Tail(ms))

get_codebase_context(ms) ==
  IF Len(ms) = 0 THEN <<>>
  ELSE <<"Here is the existing codebase for reference:", NL, NL>>
       \o ModuleEntries(ms)

(* ---------------- generate_code: building the prompt ---------------- *)
\* The literal text of the three templates, one token per run of literal text.
EXTEND_HEAD == "You are extending an existing Python module named"
PURPOSE == "The overall purpose of this library is:"
EXISTING == "Here is the existing code for this module:"
ADD_NEW == "I need you to add a new"
NAMED == "named"
FUNCTIONALITY == "that implements the following functionality:"
EXTEND_REQS == "IMPORTANT REQUIREMENTS: keep all existing functions and classes intact; return the COMPLETE module code"
MODULE_HEAD == "Create a Python module named"
WITH_A == "with a"
MODULE_REQS == "IMPORTANT REQUIREMENTS: your response must be ONLY valid Python code"
PACKAGE_HEAD == "Create a Python package named"
PACKAGE_REQS == "IMPORTANT REQUIREMENTS: do not generate any additional Python files"

\* description or cached_prompt
current_description_swapped(cached, desc) ==
  IF Len(desc) > 0 THEN desc ELSE IF IsSome(cached) THEN Val(cached) ELSE desc

\* A description kept from the call before in a module-level variable.
current_description_sticky(cached, desc) ==
  IF pc = "prompt_first" THEN description
  ELSE IF Truthy(cached) THEN Val(cached) ELSE desc

\* cached_prompt or description
current_description(cached, desc) ==
  IF Truthy(cached) THEN Val(cached) ELSE desc

\* The caller code context, "" without caller source.
caller_context(name, caller) ==
  IF ~IsSome(caller) \/ ~Truthy(Val(caller).code) THEN <<>>
  ELSE
    LET code == Val(Val(caller).code)
        lines == Split(code, NL)
        filename == IF IsSome(Val(caller).filename)
                      THEN Val(Val(caller).filename) ELSE <<"unknown">>
        module_parts == Split(name, DOT)
        module_prefix ==
          <<"from", SP>> \o module_parts[1] \o <<DOT>> \o module_parts[2]
        IsImport(line) == Contains(line, module_prefix)
        import_lines ==
          IF Len(module_parts) >= 2 THEN SelectSeq(lines, IsImport) ELSE <<>>
        IsUsage(line) ==
          /\ Contains(line, module_parts[3])
          /\ ~(StartsWith(line, <<"import", SP>>) \/ StartsWith(line, <<"from", SP>>))
        func_usage_lines ==
          IF Len(module_parts) >= 3 THEN SelectSeq(lines, IsUsage) ELSE <<>>
        relevant_parts == import_lines \o func_usage_lines
    IN
    IF Len(relevant_parts) > 0
      THEN <<"Here is the code that is importing and using this module/function:",
             F, PY, NL, "# File:">> \o filename
           \o <<NL, "# --- Relevant snippets ---", NL>>
           \o Join(relevant_parts, NL)
           \o <<NL, F, "And here is the full context:", F, PY, NL>>
           \o code
           \o <<NL, F, "Analyze how the requested functionality will be used in the code snippets above.">>
      ELSE <<"Here is the code that is importing this module/function:",
             F, PY, NL, "# File:">> \o filename \o <<NL>>
           \o code
           \o <<NL, F, "Analyze how the requested functionality will be used in this code.">>

\* The note for a module that looks like a namespace only, "" otherwise.
empty_module_context(name, is_empty_module) ==
  IF is_empty_module
    THEN <<"IMPORTANT: this module">> \o name
         \o <<"appears to be primarily used for namespacing/structural purposes">>
    ELSE <<>>

\* Which template: the if / elif / else over function_name and existing_code.
\* The same with the first two branches in the other order.
select_template_module_first(function_name, existing) ==
  IF Truthy(function_name) THEN "new_module"
  ELSE IF Truthy(function_name) /\ Truthy(existing) THEN "extend"
  ELSE "new_package"

select_template(function_name, existing) ==
  IF Truthy(function_name) /\ Truthy(existing) THEN "extend"
  ELSE IF Truthy(function_name) THEN "new_module"
  ELSE "new_package"

\* "function" if not function_name[0].isupper() else "class"
kind(function_name) ==
  IF function_name[1] \in UpperNames THEN <<"class">> ELSE <<"function">>

\* The prompt of a name of two segments or more: the template's literal text
\* and the values put into it, in order, one text each.
BuildPrompt(desc, name, existing, caller, cached, ms) ==
  LET parts == Split(name, DOT)
      module_name == parts[2]
      function_name == IF Len(parts) > 2 THEN Some(parts[3]) ELSE None
      is_empty_module == check_if_empty_module_needed(name, caller)
      purpose == current_description(cached, desc)
      codebase == get_codebase_context(ms)
      callerctx == caller_context(name, caller)
      emptyctx == empty_module_context(name, is_empty_module)
      template == select_template(function_name, existing)
  IN
  IF template = "extend" THEN
    << <<EXTEND_HEAD>>, module_name, <<PURPOSE>>, purpose,
       <<EXISTING>>, Val(existing), codebase, callerctx, emptyctx,
       <<ADD_NEW>>, kind(Val(function_name)), <<NAMED>>, Val(function_name),
       <<FUNCTIONALITY>>, desc, <<EXTEND_REQS>> >>
  ELSE IF template = "new_module" THEN
    << <<MODULE_HEAD>>, module_name, <<WITH_A>>, kind(Val(function_name)),
       <<NAMED>>, Val(function_name), <<FUNCTIONALITY>>, desc,
       codebase, callerctx, emptyctx, <<MODULE_REQS>> >>
  ELSE
    << <<PACKAGE_HEAD>>, module_name, <<FUNCTIONALITY>>, desc,
       codebase, callerctx, emptyctx, <<PACKAGE_REQS>> >>

(* ---------------- requests ---------------- *)
Descriptions == {<<"purpose A">>, <<"purpose B">>}
ExistingCodes == {None, Some(<<>>), Some(<<X>>)}
CachedPrompts == {None, Some(<<>>), Some(<<"cached purpose">>)}
ModuleMaps ==
  {<<>>,
   << [name |-> <<"lib", DOT, "crypto">>, code |-> Some(<<X>>)],
      [name |-> <<"lib", DOT, "other">>, code |-> None] >>}
PromptCallers ==
  {None,
   CallerInfo(Some(<<"app.py">>), Some(Join(<<ImportFromLine, UsageLine>>, NL))),
   CallerInfo(None, Some(OtherLine))}
PromptNames ==
  {Dotted(segs) : segs \in {<<<<"lib">>, <<"crypto">>>>,
                            <<<<"lib">>, <<"other">>, <<"hash">>>>,
                            <<<<"lib">>, <<"crypto">>, <<"hash">>>>,
                            <<<<"lib">>, <<"crypto">>, <<"Hash">>>>,
                            <<<<"lib">>, <<"crypto">>, <<>>>>}}

\* What a finished call leaves for the next one to be compared with.
Record ==
  [description |-> description, fullname |-> fullname,
   existing_code |-> existing_code, caller_info |-> caller_info,
   cached_prompt |-> cached_prompt, modules |-> modules, prompt |-> prompt]

(* ---------------- prompt specification ---------------- *)
InitPrompt ==
  /\ pc = "prompt_idle"
  /\ description = <<>> /\ fullname = <<>> /\ existing_code = None
  /\ caller_info = None /\ api_key = None /\ cached_prompt = None
  /\ modules = <<>> /\ prompt = None /\ response = None /\ result = None
  /\ service_calls = 0 /\ prev = None

\* Two calls in a row: the second one keeps the first in prev.
PromptStep ==
  \E d \in Descriptions, n \in PromptNames, e \in ExistingCodes,
     c \in PromptCallers, cp \in CachedPrompts, ms \in ModuleMaps :
    /\ pc \in {"prompt_idle", "prompt_first"}
    /\ pc' = IF pc = "prompt_idle" THEN "prompt_first" ELSE "prompt_second"
    /\ description' = d /\ fullname' = n /\ existing_code' = e
    /\ caller_info' = c /\ cached_prompt' = cp /\ modules' = ms
    /\ prompt' = Some(BuildPrompt(d, n, e, c, cp, ms))
    /\ prev' = IF pc = "prompt_first" THEN Some(Record) ELSE None
    /\ UNCHANGED <<api_key, response, result, service_calls>>

NextPrompt == PromptStep

SpecPrompt == InitPrompt /\ [][NextPrompt]_vars

(* ---------------- generate_code: the call to the service ---------------- *)
\* The call without the credential check.
credential_missing_never(key) == FALSE

\* if not api_key: raise ValueError

credential_missing(key) == ~Truthy(key)

\* A call that sends the request again after an invalid answer or an error.
after_service_retry(outcome) == IF outcome = "valid" THEN "done" ELSE "awaiting"

\* Where the call stands once the try block has an outcome ("valid",
\* "invalid" or "error"): every branch returns.
after_service(outcome) == "done"

\* The try block from the service's answer on: content is the message
\* content of the first choice, None when it has none.
Outcome(content) ==
  IF ~IsSome(content) THEN "error"
  ELSE LET v == validate_code(ExtractCode(Val(content)))
       IN IF v = "True" THEN "valid"
          ELSE IF v = "False" THEN "invalid"
          ELSE "error"

ApiKeys == {None, Some(<<>>), Some(<<"sk-key">>)}
Responses == {None} \cup {Some(t) : t \in SeqsUpTo(Alphabet, MaxRespLen)}
PipelineNames ==
  {Dotted(segs) : segs \in {<<<<>>>>, <<<<"lib">>>>,
                            <<<<"lib">>, <<"crypto">>>>,
                            <<<<"lib">>, <<"crypto">>, <<"hash">>>>}}
PipelineExisting == {None, Some(<<X>>)}

Init ==
  /\ pc = "idle"
  /\ description = <<>> /\ fullname = <<>> /\ existing_code = None
  /\ caller_info = None /\ api_key = None /\ cached_prompt = None
  /\ modules = <<>> /\ prompt = None /\ response = None /\ result = None
  /\ service_calls = 0 /\ prev = None

\* generate_code from its entry to the request it sends, or to its return
\* when it sends none.
Invoke ==
  \E n \in PipelineNames, e \in PipelineExisting, key \in ApiKeys :
    /\ pc \in {"idle", "done"}
    /\ description' = <<"purpose A">> /\ fullname' = n /\ existing_code' = e
    /\ caller_info' = None /\ api_key' = key
    /\ response' = None /\ result' = None
    /\ IF Len(Split(n, DOT)) < 2
         THEN /\ prompt' = None
              /\ pc' = "done"
              /\ service_calls' = 0
         ELSE /\ prompt' = Some(BuildPrompt(<<"purpose A">>, n, e, None,
                                            cached_prompt, modules))
              /\ IF credential_missing(key)
                   THEN pc' = "done" /\ service_calls' = 0
                   ELSE pc' = "awaiting" /\ service_calls' = 1
    /\ UNCHANGED <<cached_prompt, modules, prev>>

\* The service answers: the rest of generate_code.
ServiceReturns ==
  \E content \in Responses :
    /\ pc = "awaiting"
    /\ response' = content
    /\ result' = IF Outcome(content) = "valid"
                   THEN Some(ExtractCode(Val(content))) ELSE None
    /\ pc' = after_service(Outcome(content))
    /\ service_calls' = IF pc' = "awaiting" THEN service_calls + 1
                        ELSE service_calls
    /\ UNCHANGED <<description, fullname, existing_code, caller_info, api_key,
                   cached_prompt, modules, prompt, prev>>

\* The client or the request raises: the except branch.
ServiceRaises ==
  /\ pc = "awaiting"
  /\ response' = None
  /\ result' = None
  /\ pc' = after_service("error")
  /\ service_calls' = IF pc' = "awaiting" THEN service_calls + 1
                      ELSE service_calls
  /\ UNCHANGED <<description, fullname, existing_code, caller_info, api_key,
                 cached_prompt, modules, prompt, prev>>

Next == Invoke \/ ServiceReturns \/ ServiceRaises

Spec == Init /\ [][Next]_vars

(* ======================= properties ======================= *)
Parts == Split(fullname, DOT)

\* C1: a finished generate_code call returned None or the service's text
\* after trimming and fence removal, which ast.parse accepts; a response whose
\* extracted text does not parse ends in None, and the store is as it was.
C1_ValidatedOrNothing ==
  pc = "done" =>
    /\ cached_prompt = None /\ modules = <<>>
    /\ \/ result = None
       \/ /\ IsSome(response)
          /\ Val(result) = ExtractCode(Val(response))
          /\ ast_parse(Val(result)) = "ok"
    /\ (IsSome(response) /\ ast_parse(ExtractCode(Val(response))) # "ok")
         => result = None

C1_Witness ==
  /\ pc = "done"
  /\ IsSome(response)
  /\ ast_parse(ExtractCode(Val(response))) = "SyntaxError"
  /\ Len(ExtractCode(Val(response))) < Len(Val(response))
  /\ result = None

\* C2: a request has reached the service only for a name of two segments or
\* more with the credential set; a call with fewer segments or without the
\* credential ends in None with no request sent.
C2_ServiceOnlyWithNameAndKey ==
  /\ service_calls > 0 => (Len(Parts) >= 2 /\ Truthy(api_key))
  /\ (pc = "done" /\ (Len(Parts) < 2 \/ ~Truthy(api_key)))
       => (result = None /\ service_calls = 0 /\ response = None)

C2_Witness ==
  /\ pc = "done"
  /\ Len(Parts) >= 2
  /\ ~IsSome(api_key)
  /\ IsSome(prompt)
  /\ result = None
  /\ service_calls = 0

\* The lines of the caller source that hold the second segment followed by
\* a dot.
RefLines ==
  LET ref == Parts[2] \o <<DOT>>
      IsRef(line) == Contains(line, ref)
  IN SelectSeq(Split(Val(Val(caller_info).code), NL), IsRef)

\* C3: check_if_empty_module_needed returns true only if every caller line
\* that references the module prefix followed by a dot is an import line.
C3_TrueOnlyWithoutDirectUsage ==
  (pc = "heur_done" /\ result = TRUE) =>
    \A i \in 1..Len(RefLines) : Contains(RefLines[i], <<"import">>)

\* C3, the example of the claim: lib.crypto.hash.md5 with an import of
\* lib.crypto and a line using crypto.hash.md5 gives false.
C3_Example ==
  (/\ pc = "heur_done"
   /\ fullname = Dotted(<<<<"lib">>, <<"crypto">>, <<"hash">>, <<"md5">>>>)
   /\ caller_info = CallerInfo(Some(<<"app.py">>),
                               Some(Join(<<ImportFromLine, UsageLine>>, NL))))
    => result = FALSE

\* The slot that follows the literal text lit in a prompt, None without it.
SlotAfter(p, lit) ==
  LET hits == {i \in 1..(Len(p) - 1) : p[i] = <<lit>>}
  IN IF hits = {} THEN None
     ELSE Some(p[(CHOOSE i \in hits : \A j \in hits : i <= j) + 1])

Template(p) ==
  IF p[1] = <<EXTEND_HEAD>> THEN "extend"
  ELSE IF p[1] = <<MODULE_HEAD>> THEN "new_module"
  ELSE IF p[1] = <<PACKAGE_HEAD>> THEN "new_package"
  ELSE "none"

\* C4 as claimed: every prompt embeds as the library purpose the cached
\* description when the store holds one, else the caller's description.
C4_PurposeInEveryTemplate ==
  IsSome(prompt) =>
    SlotAfter(Val(prompt), PURPOSE)
      = Some(IF IsSome(cached_prompt) THEN Val(cached_prompt) ELSE description)

\* C4 as amended: the extend template embeds as the library purpose the cached
\* description when the store holds a non-empty one, else the caller's
\* description; the other two templates embed no library purpose, and every
\* template embeds the caller's description as the functionality.
C4_PurposeInExtendTemplate ==
  IsSome(prompt) =>
    /\ Template(Val(prompt)) = "extend" =>
         SlotAfter(Val(prompt), PURPOSE)
           = Some(IF Truthy(cached_prompt) THEN Val(cached_prompt)
                  ELSE description)
    /\ Template(Val(prompt)) # "extend" =>
         SlotAfter(Val(prompt), PURPOSE) = None
    /\ SlotAfter(Val(prompt), FUNCTIONALITY) = Some(description)

C4_Witness ==
  /\ IsSome(prompt)
  /\ Template(Val(prompt)) = "extend"
  /\ Truthy(cached_prompt)
  /\ Val(cached_prompt) # description
  /\ SlotAfter(Val(prompt), PURPOSE) = cached_prompt

\* The symbol name of the request: its third segment, when not empty.
HasSymbol == Len(Parts) > 2 /\ Len(Parts[3]) > 0

\* C5: the prompt follows the extend template when a symbol name and existing
\* source are present, the new-module template when a symbol name is present
\* without existing source, the new-package template without a symbol name
\* (present: not None and not empty).
C5_TemplateByPriority ==
  IsSome(prompt) =>
    /\ Template(Val(prompt)) \in {"extend", "new_module", "new_package"}
    /\ Template(Val(prompt)) = "extend"
         <=> (HasSymbol /\ Truthy(existing_code))
    /\ Template(Val(prompt)) = "new_module"
         <=> (HasSymbol /\ ~Truthy(existing_code))
    /\ Template(Val(prompt)) = "new_package" <=> ~HasSymbol

C5_Witness ==
  /\ IsSome(prompt)
  /\ ~HasSymbol
  /\ Truthy(existing_code)
  /\ Template(Val(prompt)) = "new_package"

IsWrapped(s) == Len(s) >= 3 /\ StartsWith(s, <<F, PY>>) /\ s[Len(s)] = F
Inner(s) == SubSeq(s, 3, Len(s) - 1)

\* C6 as claimed: of a response wrapped in a tagged opening fence and a
\* closing fence, fence removal leaves the inner text, whatever it holds.
C6_StripsOuterPairAlways ==
  (pc = "stripped" /\ IsWrapped(response)) => result = Inner(response)

\* C6 as amended: of a response that opens with the fence tagged python and
\* closes with a fence, and whose inner text holds no fence marker, fence
\* removal leaves the inner text unchanged.
C6_StripsOuterPairOfPlainInner ==
  (pc = "stripped" /\ IsWrapped(response) /\ ~Contains(Inner(response), <<F>>))
    => result = Inner(response)

C6_Witness ==
  /\ pc = "stripped"
  /\ IsWrapped(response)
  /\ Len(Inner(response)) >= 2
  /\ ~Contains(Inner(response), <<F>>)
  /\ result = Inner(response)

\* C7: check_if_empty_module_needed returns false without caller_info or
\* caller source, and false for a name of exactly two segments.
C7_FalseWithoutCallerOrNesting ==
  pc = "heur_done" =>
    /\ (~IsSome(caller_info) \/ ~Truthy(Val(caller_info).code)) => result = FALSE
    /\ Len(Parts) = 2 => result = FALSE

C7_Witness ==
  /\ pc = "heur_done"
  /\ Len(Parts) = 2
  /\ IsSome(caller_info)
  /\ Truthy(Val(caller_info).code)
  /\ LET from == <<"from", SP>> \o Parts[1] \o <<DOT>> \o Parts[2]
     IN Contains(Val(Val(caller_info).code), from)
  /\ result = FALSE

\* C8: one generate_code call sends at most one request to the service,
\* and exactly while or after it waited for the answer.
C8_AtMostOneRequest ==
  /\ service_calls <= 1
  /\ pc = "awaiting" => service_calls = 1

C8_Witness ==
  /\ pc = "done"
  /\ service_calls = 1
  /\ IsSome(response)
  /\ Outcome(response) = "invalid"
  /\ result = None

HeuristicOf(r) == check_if_empty_module_needed(r.fullname, r.caller_info)

C10_NeverRaises ==
  pc = "validated" => result \in {"True", "False"}

====
